---- MODULE Spec2Model ----
(***************************************************************************)
(* Model of mycli's REPL (src/src/repl.rs): Repl::new, load_history,       *)
(* save_history and the run loop, together with the collaborators the loop *)
(* drives (the rustyline editor: readline, add_history_entry, history      *)
(* persistence; the CommandHandler; stderr).                               *)
(*                                                                         *)
(* A line of text is a sequence of one-character strings.  Every call the  *)
(* run loop makes on a collaborator is recorded, in call order, in `trace`.*)
(***************************************************************************)
EXTENDS Integers, Sequences, FiniteSets, TLC

VARIABLES
    pc,         \* "start": no Repl exists; "ready": constructed; "running": inside run(); "returned": run() has returned
    prompt,     \* Repl.prompt
    history,    \* the editor's in-memory history (oldest first)
    fs,         \* the history files, by path
    trace,      \* the collaborator calls of the run() in progress or just returned, in order
    lastCall,   \* the last call on the Repl: its name, its path argument, and its result ("none" until it returns)
    entry,      \* the history and the files as they were when that run() was entered
    saved,      \* per path: the history handed to the last successful save_history, and by which session
    nreads,     \* readline calls so far (all sessions)
    nsess       \* Repl::new calls so far

vars == <<pc, prompt, history, fs, trace, lastCall, entry, saved, nreads, nsess>>

----------------------------------------------------------------------------
(* Bounds of the model *)

MaxReads == 4
MaxSessions == 2

----------------------------------------------------------------------------
(* Input alphabets *)

Whitespace == {" ", "\t"}

\* The lines readline can hand back (without the line terminator).
Lines ==
    { <<>>,
      <<" ", " ">>,
      <<"h", "e", "l", "p">>,
      <<"q", "u", "i", "t">>,
      <<" ", "a", " ", "b", "\t">> }

Prompts == { <<">", " ">>, <<"c", "a", "l", "c", ">", " ">> }

Paths == {"p1", "p2"}

NoFile == [exists |-> FALSE, data |-> <<>>]

----------------------------------------------------------------------------
(* str::trim and str::is_empty, as used at repl.rs:234-236 *)

RECURSIVE TrimStart(_)
TrimStart(s) ==
    IF s = <<>> THEN s
    ELSE IF Head(s) \in Whitespace THEN TrimStart(Tail(s)) ELSE s

RECURSIVE TrimEnd(_)
TrimEnd(s) ==
    IF s = <<>> THEN s
    ELSE IF s[Len(s)] \in Whitespace THEN TrimEnd(SubSeq(s, 1, Len(s) - 1)) ELSE s

TrimStartOnly(line) == TrimStart(line)

TrimEndOnly(line) == TrimEnd(line)

Trim(line) == TrimEnd(TrimStart(line))

NeverEmpty(cmd) == FALSE

IsEmpty(cmd) == Len(cmd) = 0

----------------------------------------------------------------------------
(* The history file: newline-delimited, oldest first *)

RECURSIVE EncodeHistory(_)
EncodeHistory(h) ==
    IF h = <<>> THEN <<>>
    ELSE Head(h) \o <<"\n">> \o EncodeHistory(Tail(h))

RECURSIVE DecodeFrom(_, _, _)
DecodeFrom(data, cur, acc) ==
    IF data = <<>> THEN (IF cur = <<>> THEN acc ELSE Append(acc, cur))
    ELSE IF Head(data) = "\n" THEN DecodeFrom(Tail(data), <<>>, Append(acc, cur))
    ELSE DecodeFrom(Tail(data), Append(cur, Head(data)), acc)

DecodeHistory(data) == DecodeFrom(data, <<>>, <<>>)

----------------------------------------------------------------------------
(* Trace entries: one per collaborator call made by run() *)

Ev(op, arg, out, text) == [op |-> op, arg |-> arg, out |-> out, text |-> text]

\* readline called with an empty prompt instead of the Repl's
EvReadNoPrompt(p, kind, text) == Ev("readline", <<>>, kind, text)
EvRead(p, kind, text) == Ev("readline", p, kind, text)
EvAdd(cmd, added) == Ev("add_history_entry", cmd, IF added THEN "added" ELSE "ignored", <<>>)
EvHandle(cmd, cont) == Ev("handle", cmd, IF cont THEN "true" ELSE "false", <<>>)
EvDiag == Ev("eprintln", <<>>, "Error", <<>>)
EvNew(p, editorOk) == Ev("new", p, IF editorOk THEN "Ok" ELSE "Err", <<>>)

----------------------------------------------------------------------------
Call(op, path, result) == [op |-> op, path |-> path, result |-> result]

NoCall == Call("none", "", "none")

Init ==
    /\ pc = "start"
    /\ prompt = <<>>
    /\ history = <<>>
    /\ fs = [p \in Paths |-> NoFile]
    /\ trace = <<>>
    /\ lastCall = NoCall
    /\ entry = [history |-> <<>>, fs |-> fs]
    /\ saved = [p \in Paths |-> [sess |-> 0, hist |-> <<>>]]
    /\ nreads = 0
    /\ nsess = 0

----------------------------------------------------------------------------
(* Repl::new: DefaultEditor::new()? either yields an editor with an empty *)
(* history or fails, in which case no Repl is produced.                   *)
\* Repl::new that hands out a Repl although the editor could not be created
NewDespiteEditorError ==
    /\ pc = "start"
    /\ nsess < MaxSessions
    /\ nsess' = nsess + 1
    /\ \E p \in Prompts, editorOk \in BOOLEAN :
          /\ pc' = "ready"
          /\ prompt' = p
          /\ lastCall' = Call("new", "", IF editorOk THEN "Ok" ELSE "Err")
          /\ trace' = <<EvNew(p, editorOk)>>
    /\ history' = <<>>
    /\ entry' = [history |-> <<>>, fs |-> fs]
    /\ UNCHANGED <<fs, saved, nreads>>

New ==
    /\ pc = "start"
    /\ nsess < MaxSessions
    /\ nsess' = nsess + 1
    /\ \E p \in Prompts, editorOk \in BOOLEAN :
          /\ trace' = <<EvNew(p, editorOk)>>
          /\ IF editorOk
             THEN /\ pc' = "ready"
                  /\ prompt' = p
                  /\ lastCall' = Call("new", "", "Ok")
             ELSE /\ pc' = "start"
                  /\ prompt' = <<>>
                  /\ lastCall' = Call("new", "", "Err")
    /\ history' = <<>>
    /\ entry' = [history |-> <<>>, fs |-> fs]
    /\ UNCHANGED <<fs, saved, nreads>>

\* The Repl goes out of scope (the process ends); the files stay.
Drop ==
    /\ pc \in {"ready", "returned"}
    /\ pc' = "start"
    /\ prompt' = <<>>
    /\ history' = <<>>
    /\ trace' = <<>>
    /\ lastCall' = NoCall
    /\ entry' = [history |-> <<>>, fs |-> fs]
    /\ UNCHANGED <<fs, saved, nreads, nsess>>

----------------------------------------------------------------------------
(* load_history / save_history: plain delegation to the editor.  A missing *)
(* file, or an I/O failure, makes the call return Err and change nothing.  *)
(* The embedding program is the one of the module documentation: new, then *)
(* optionally load_history, then run, then optionally save_history.        *)

LoadHistoryStub ==
    /\ pc = "ready"
    /\ lastCall.op = "new"
    /\ \E path \in Paths : lastCall' = Call("load_history", path, "Ok")
    /\ UNCHANGED <<pc, prompt, history, fs, trace, entry, saved, nreads, nsess>>

\* load_history whose failure is not handed back but ends the program
LoadHistoryFatal ==
    /\ pc = "ready"
    /\ lastCall.op = "new"
    /\ \E path \in Paths, ioOk \in BOOLEAN :
          IF fs[path].exists /\ ioOk
          THEN /\ history' = history \o DecodeHistory(fs[path].data)
               /\ lastCall' = Call("load_history", path, "Ok")
               /\ UNCHANGED <<pc, prompt>>
          ELSE /\ history' = <<>>
               /\ lastCall' = Call("load_history", path, "Err")
               /\ pc' = "start"
               /\ prompt' = <<>>
    /\ UNCHANGED <<fs, trace, entry, saved, nreads, nsess>>

LoadHistory ==
    /\ pc = "ready"
    /\ lastCall.op = "new"
    /\ \E path \in Paths, ioOk \in BOOLEAN :
          IF fs[path].exists /\ ioOk
          THEN /\ history' = history \o DecodeHistory(fs[path].data)
               /\ lastCall' = Call("load_history", path, "Ok")
          ELSE /\ history' = history
               /\ lastCall' = Call("load_history", path, "Err")
    /\ UNCHANGED <<pc, prompt, fs, trace, entry, saved, nreads, nsess>>

SaveHistory ==
    /\ pc = "returned"
    /\ lastCall.op = "run"
    /\ \E path \in Paths, ioOk \in BOOLEAN :
          IF ioOk
          THEN /\ fs' = [fs EXCEPT ![path] = [exists |-> TRUE, data |-> EncodeHistory(history)]]
               /\ saved' = [saved EXCEPT ![path] = [sess |-> nsess, hist |-> history]]
               /\ lastCall' = Call("save_history", path, "Ok")
          ELSE /\ UNCHANGED <<fs, saved>>
               /\ lastCall' = Call("save_history", path, "Err")
    /\ trace' = <<>>
    /\ entry' = [history |-> <<>>, fs |-> fs']
    /\ UNCHANGED <<pc, prompt, history, nreads, nsess>>

----------------------------------------------------------------------------
(* run(): entry, then one action per arm of the match at repl.rs:232-256.  *)
(* Each arm is one whole loop iteration: the blocking readline, whatever   *)
(* the arm calls, and the continue/break that ends the iteration.          *)

RunEnter ==
    /\ pc = "ready"
    /\ pc' = "running"
    /\ trace' = <<>>
    /\ lastCall' = Call("run", "", "none")
    /\ entry' = [history |-> history, fs |-> fs]
    /\ UNCHANGED <<prompt, history, fs, saved, nreads, nsess>>

\* The value run() returns after the loop is left (repl.rs:258).
RunReturn == "Ok"

AlwaysContinue(cont) == TRUE

\* `if !self.handler.handle(cmd) { break; }`
KeepLooping(cont) == cont

\* Ok(line) arm that gives up (`?`) when add_history_entry does not add
OnLineAddErrorAborts ==
    /\ pc = "running"
    /\ nreads < MaxReads
    /\ nreads' = nreads + 1
    /\ \E line \in Lines :
          LET cmd == Trim(line)
              rd  == EvRead(prompt, "Line", line)
          IN IF IsEmpty(cmd)
             THEN /\ trace' = Append(trace, rd)
                  /\ UNCHANGED <<pc, history, lastCall>>
             ELSE \E added \in BOOLEAN, cont \in BOOLEAN :
                    IF added
                    THEN /\ history' = Append(history, cmd)
                         /\ trace' = trace \o <<rd, EvAdd(cmd, added), EvHandle(cmd, cont)>>
                         /\ IF KeepLooping(cont)
                            THEN UNCHANGED <<pc, lastCall>>
                            ELSE pc' = "returned" /\ lastCall' = Call("run", "", RunReturn)
                    ELSE /\ history' = history
                         /\ trace' = trace \o <<rd, EvAdd(cmd, added)>>
                         /\ pc' = "returned"
                         /\ lastCall' = Call("run", "", "Err")
    /\ UNCHANGED <<prompt, fs, entry, saved, nsess>>

\* Ok(line) arm that calls the handler before add_history_entry
OnLineDispatchesFirst ==
    /\ pc = "running"
    /\ nreads < MaxReads
    /\ nreads' = nreads + 1
    /\ \E line \in Lines :
          LET cmd == Trim(line)
              rd  == EvRead(prompt, "Line", line)
          IN IF IsEmpty(cmd)
             THEN /\ trace' = Append(trace, rd)
                  /\ UNCHANGED <<pc, history, lastCall>>
             ELSE \E added \in BOOLEAN, cont \in BOOLEAN :
                    /\ history' = IF added THEN Append(history, cmd) ELSE history
                    /\ trace' = trace \o <<rd, EvHandle(cmd, cont), EvAdd(cmd, added)>>
                    /\ IF KeepLooping(cont)
                       THEN UNCHANGED <<pc, lastCall>>
                       ELSE pc' = "returned" /\ lastCall' = Call("run", "", RunReturn)
    /\ UNCHANGED <<prompt, fs, entry, saved, nsess>>

\* Ok(line): trim, skip if empty, else add_history_entry (result discarded:
\* the entry may or may not be added) and handle, whose result decides.
OnLine ==
    /\ pc = "running"
    /\ nreads < MaxReads
    /\ nreads' = nreads + 1
    /\ \E line \in Lines :
          LET cmd == Trim(line)
              rd  == EvRead(prompt, "Line", line)
          IN IF IsEmpty(cmd)
             THEN /\ trace' = Append(trace, rd)
                  /\ UNCHANGED <<pc, history, lastCall>>
             ELSE \E added \in BOOLEAN, cont \in BOOLEAN :
                    /\ history' = IF added THEN Append(history, cmd) ELSE history
                    /\ trace' = trace \o <<rd, EvAdd(cmd, added), EvHandle(cmd, cont)>>
                    /\ IF KeepLooping(cont)
                       THEN UNCHANGED <<pc, lastCall>>
                       ELSE pc' = "returned" /\ lastCall' = Call("run", "", RunReturn)
    /\ UNCHANGED <<prompt, fs, entry, saved, nsess>>

OnInterruptedBreaks ==
    /\ pc = "running"
    /\ nreads < MaxReads
    /\ nreads' = nreads + 1
    /\ trace' = Append(trace, EvRead(prompt, "Interrupted", <<>>))
    /\ pc' = "returned"
    /\ lastCall' = Call("run", "", RunReturn)
    /\ UNCHANGED <<prompt, history, fs, entry, saved, nsess>>

\* Err(err) arm that reports the error and reads again
OnErrRetries ==
    /\ pc = "running"
    /\ nreads < MaxReads
    /\ nreads' = nreads + 1
    /\ trace' = trace \o <<EvRead(prompt, "Err", <<>>), EvDiag>>
    /\ UNCHANGED <<pc, prompt, history, fs, lastCall, entry, saved, nsess>>

\* Err(ReadlineError::Interrupted) => continue
OnInterrupted ==
    /\ pc = "running"
    /\ nreads < MaxReads
    /\ nreads' = nreads + 1
    /\ trace' = Append(trace, EvRead(prompt, "Interrupted", <<>>))
    /\ UNCHANGED <<pc, prompt, history, fs, lastCall, entry, saved, nsess>>

OnEofContinues ==
    /\ pc = "running"
    /\ nreads < MaxReads
    /\ nreads' = nreads + 1
    /\ trace' = Append(trace, EvRead(prompt, "Eof", <<>>))
    /\ UNCHANGED <<pc, prompt, history, fs, lastCall, entry, saved, nsess>>

OnEofSaves ==
    /\ pc = "running"
    /\ nreads < MaxReads
    /\ nreads' = nreads + 1
    /\ trace' = Append(trace, EvRead(prompt, "Eof", <<>>))
    /\ pc' = "returned"
    /\ lastCall' = Call("run", "", RunReturn)
    /\ fs' = [fs EXCEPT !["p1"] = [exists |-> TRUE, data |-> EncodeHistory(history)]]
    /\ UNCHANGED <<prompt, history, entry, saved, nsess>>

\* Err(ReadlineError::Eof) => break
OnEof ==
    /\ pc = "running"
    /\ nreads < MaxReads
    /\ nreads' = nreads + 1
    /\ trace' = Append(trace, EvRead(prompt, "Eof", <<>>))
    /\ pc' = "returned"
    /\ lastCall' = Call("run", "", RunReturn)
    /\ UNCHANGED <<prompt, history, fs, entry, saved, nsess>>

OnErrSilent ==
    /\ pc = "running"
    /\ nreads < MaxReads
    /\ nreads' = nreads + 1
    /\ trace' = Append(trace, EvRead(prompt, "Err", <<>>))
    /\ pc' = "returned"
    /\ lastCall' = Call("run", "", RunReturn)
    /\ UNCHANGED <<prompt, history, fs, entry, saved, nsess>>

\* Err(err) => { eprintln!("Error: {:?}", err); break; }
OnErr ==
    /\ pc = "running"
    /\ nreads < MaxReads
    /\ nreads' = nreads + 1
    /\ trace' = trace \o <<EvRead(prompt, "Err", <<>>), EvDiag>>
    /\ pc' = "returned"
    /\ lastCall' = Call("run", "", RunReturn)
    /\ UNCHANGED <<prompt, history, fs, entry, saved, nsess>>

----------------------------------------------------------------------------
Next ==
    \/ New
    \/ Drop
    \/ LoadHistory
    \/ SaveHistory
    \/ RunEnter
    \/ OnLine
    \/ OnInterrupted
    \/ OnEof
    \/ OnErr

Spec == Init /\ [][Next]_vars

----------------------------------------------------------------------------
(* One execution of the embedding program (one Repl), started with the     *)
(* history files an earlier execution may have left behind.                *)

PriorFiles ==
    { [p \in Paths |-> NoFile],
      [p \in Paths |-> IF p = "p1"
                       THEN [exists |-> TRUE, data |-> EncodeHistory(<< <<"h", "e", "l", "p">> >>)]
                       ELSE NoFile] }

InitRun ==
    /\ pc = "start"
    /\ prompt = <<>>
    /\ history = <<>>
    /\ fs \in PriorFiles
    /\ trace = <<>>
    /\ lastCall = NoCall
    /\ entry = [history |-> <<>>, fs |-> fs]
    /\ saved = [p \in Paths |-> [sess |-> 0, hist |-> DecodeHistory(fs[p].data)]]
    /\ nreads = 0
    /\ nsess = 0

FirstNew == nsess = 0 /\ New

NextRun ==
    \/ FirstNew
    \/ LoadHistory
    \/ RunEnter
    \/ OnLine
    \/ OnInterrupted
    \/ OnEof
    \/ OnErr
    \/ SaveHistory
    \/ Drop

SpecRun == InitRun /\ [][NextRun]_vars

----------------------------------------------------------------------------
(* The program of the module documentation on a machine without a history  *)
(* file: new, `let _ = load_history(..)` (which fails, the error being      *)
(* discarded), run, `let _ = save_history(..)`.                             *)

RunAfterLoad == lastCall.op = "load_history" /\ RunEnter

NextMain ==
    \/ FirstNew
    \/ LoadHistory
    \/ RunAfterLoad
    \/ OnLine
    \/ OnInterrupted
    \/ OnEof
    \/ OnErr
    \/ SaveHistory
    \/ Drop

SpecMain == Init /\ [][NextMain]_vars

----------------------------------------------------------------------------
(* One run over a finite input: at most MaxReads events, the last of which *)
(* is Eof or a read error, so a line or an interrupt is only delivered     *)
(* while another event follows it.  run executes its loop without pause:   *)
(* while it is running and the input has an event, an iteration happens.   *)

MoreInputFollows == nreads + 1 < MaxReads

ScriptLine == MoreInputFollows /\ OnLine

ScriptInterrupted == MoreInputFollows /\ OnInterrupted

Iteration == ScriptLine \/ ScriptInterrupted \/ OnEof \/ OnErr

NextScript ==
    \/ FirstNew
    \/ RunEnter
    \/ ScriptLine
    \/ ScriptInterrupted
    \/ OnEof
    \/ OnErr
    \/ Drop

SpecScript == Init /\ [][NextScript]_vars /\ WF_vars(Iteration)

----------------------------------------------------------------------------
(* Vocabulary for the properties *)

IsBlank(s) == \A k \in 1..Len(s) : s[k] \in Whitespace

\* cmd is line without its leading and trailing whitespace, interior untouched
IsStrippedOf(cmd, line) ==
    /\ Len(cmd) <= Len(line)
    /\ cmd # <<>> => (cmd[1] \notin Whitespace /\ cmd[Len(cmd)] \notin Whitespace)
    /\ \E i \in 0..(Len(line) - Len(cmd)) :
          /\ \A k \in 1..i : line[k] \in Whitespace
          /\ \A k \in (i + Len(cmd) + 1)..Len(line) : line[k] \in Whitespace
          /\ cmd = SubSeq(line, i + 1, i + Len(cmd))

IsRead(e) == e.op = "readline"
IsAdd(e) == e.op = "add_history_entry"
IsAdded(e) == e.op = "add_history_entry" /\ e.out = "added"
IsHandle(e) == e.op = "handle"
IsDiag(e) == e.op = "eprintln"
IsLineRead(e) == e.op = "readline" /\ e.out = "Line"
IsCommandRead(e) == IsLineRead(e) /\ ~IsBlank(e.text)
IsBlankRead(e) == IsLineRead(e) /\ IsBlank(e.text)
IsInterrupt(e) == e.op = "readline" /\ e.out = "Interrupted"
IsEofRead(e) == e.op = "readline" /\ e.out = "Eof"
IsErrRead(e) == e.op = "readline" /\ e.out = "Err"

ArgsOf(s) == [k \in 1..Len(s) |-> s[k].arg]
TextsOf(s) == [k \in 1..Len(s) |-> s[k].text]
OutsOf(s) == [k \in 1..Len(s) |-> s[k].out]

Dispatched == ArgsOf(SelectSeq(trace, IsHandle))
AddRequests == ArgsOf(SelectSeq(trace, IsAdd))
AddedEntries == ArgsOf(SelectSeq(trace, IsAdded))
CommandLines == TextsOf(SelectSeq(trace, IsCommandRead))
ReadOutcomes == OutsOf(SelectSeq(trace, IsRead))

RunOpen == pc = "running" /\ lastCall = Call("run", "", "none")
RunClosed == pc = "returned"
RunJustReturned == pc = "returned" /\ lastCall.op = "run"
InRun == RunOpen \/ RunJustReturned

----------------------------------------------------------------------------
(* C1: when a read returns an error other than Interrupt and EndOfInput,   *)
(* run() returns FatalError (not Ok).  The code returns Ok(()) on every    *)
(* exit from the loop, so this is violated.                                *)
C1_OtherErrorReturnsFatal ==
    (RunJustReturned /\ \E i \in 1..Len(trace) : IsErrRead(trace[i]))
        => lastCall.result = "Err"

----------------------------------------------------------------------------
(* C2: a line that is empty or all whitespace is neither handed to the     *)
(* handler nor added to history, and the loop goes on to the next read; no *)
(* command that reached the handler or the history is empty or blank.      *)
C2_BlankLinesFiltered ==
    InRun =>
        /\ \A i \in 1..Len(trace) :
              /\ (IsHandle(trace[i]) \/ IsAdd(trace[i])) => ~IsBlank(trace[i].arg)
              /\ IsBlankRead(trace[i]) =>
                    IF i = Len(trace) THEN RunOpen ELSE IsRead(trace[i + 1])
        /\ history = entry.history \o AddedEntries
        /\ \A k \in 1..Len(AddedEntries) : ~IsBlank(AddedEntries[k])

C2_Witness ==
    /\ RunOpen
    /\ Len(trace) >= 4
    /\ trace[1] = EvRead(prompt, "Line", <<>>)
    /\ trace[2] = EvRead(prompt, "Line", <<" ", " ">>)
    /\ IsCommandRead(trace[3])
    /\ IsBlankRead(trace[Len(trace)])
    /\ Len(Dispatched) = 1
    /\ Len(history) = 1

----------------------------------------------------------------------------
(* C3 as stated: every non-blank line reaches the handler stripped of its  *)
(* leading and trailing whitespace, and that command is appended to        *)
(* history exactly once, in order.  Violated: add_history_entry's result   *)
(* is discarded, and an entry the editor does not take is not in history.  *)
C3_EveryCommandInHistory ==
    InRun =>
        /\ Len(Dispatched) = Len(CommandLines)
        /\ \A k \in 1..Len(Dispatched) : IsStrippedOf(Dispatched[k], CommandLines[k])
        /\ history = entry.history \o Dispatched

(* C3 amended: every non-blank line reaches the handler stripped of its    *)
(* leading and trailing whitespace (interior unchanged), and exactly one   *)
(* add_history_entry call is made with that same command, in the order the *)
(* lines were received; history holds the entries the editor took.         *)
C3_CommandStrippedAndAddRequestedOnce ==
    InRun =>
        /\ \A i \in 1..Len(trace) :
              /\ IsCommandRead(trace[i]) =>
                    /\ i + 2 <= Len(trace)
                    /\ IsAdd(trace[i + 1])
                    /\ IsHandle(trace[i + 2])
                    /\ IsStrippedOf(trace[i + 1].arg, trace[i].text)
                    /\ trace[i + 2].arg = trace[i + 1].arg
              /\ IsAdd(trace[i]) => (i > 1 /\ IsCommandRead(trace[i - 1]))
              /\ IsHandle(trace[i]) => (i > 1 /\ IsAdd(trace[i - 1]))
        /\ AddRequests = Dispatched
        /\ history = entry.history \o AddedEntries

C3_Witness ==
    /\ RunOpen
    /\ Dispatched = << <<"a", " ", "b">>, <<"h", "e", "l", "p">>, <<"a", " ", "b">> >>
    /\ history = entry.history \o << <<"a", " ", "b">>, <<"a", " ", "b">> >>

----------------------------------------------------------------------------
(* C4: an Interrupt never ends run(), never reaches the handler and never  *)
(* touches history; the next non-blank line read after any number of       *)
(* Interrupts is recorded and dispatched as usual.                         *)
C4_InterruptAbsorbed ==
    InRun =>
        /\ \A i \in 1..Len(trace) :
              /\ IsInterrupt(trace[i]) =>
                    /\ IF i = Len(trace) THEN RunOpen ELSE IsRead(trace[i + 1])
                    /\ (i < Len(trace) /\ IsCommandRead(trace[i + 1])) =>
                          /\ i + 3 <= Len(trace)
                          /\ IsAdd(trace[i + 2])
                          /\ IsStrippedOf(trace[i + 2].arg, trace[i + 1].text)
                          /\ trace[i + 3] \in {EvHandle(trace[i + 2].arg, TRUE),
                                               EvHandle(trace[i + 2].arg, FALSE)}
              /\ (IsAdd(trace[i]) \/ IsHandle(trace[i])) =>
                    (i > 1 /\ ~IsInterrupt(trace[i - 1]))
        /\ Len(Dispatched) = Len(CommandLines)
        /\ history = entry.history \o AddedEntries

C4_Witness ==
    /\ InRun
    /\ Len(trace) = 5
    /\ IsInterrupt(trace[1])
    /\ IsInterrupt(trace[2])
    /\ IsCommandRead(trace[3])
    /\ IsAdded(trace[4])
    /\ IsHandle(trace[5])
    /\ history = Append(entry.history, trace[5].arg)

----------------------------------------------------------------------------
(* C5: when the handler returns false for a command, run() returns Ok      *)
(* right after that dispatch and reads nothing more; when it returns true, *)
(* the next thing run() does is another read.                              *)
C5_HandlerDecidesContinuation ==
    InRun =>
        \A i \in 1..Len(trace) :
            IsHandle(trace[i]) =>
                IF trace[i].out = "false"
                THEN /\ i = Len(trace)
                     /\ RunClosed
                     /\ lastCall.op = "run" => lastCall.result = "Ok"
                ELSE IF i = Len(trace) THEN RunOpen ELSE IsRead(trace[i + 1])

C5_Witness ==
    /\ RunJustReturned
    /\ lastCall.result = "Ok"
    /\ nreads < MaxReads
    /\ OutsOf(SelectSeq(trace, IsHandle)) = <<"true", "false">>
    /\ IsRead(trace[4])

----------------------------------------------------------------------------
(* C6: EndOfInput ends run() with Ok however many commands were dispatched *)
(* before it; for the input [EndOfInput] the handler is never called.      *)
C6_EofReturnsOk ==
    InRun =>
        \A i \in 1..Len(trace) :
            IsEofRead(trace[i]) =>
                /\ i = Len(trace)
                /\ RunClosed
                /\ lastCall.op = "run" => lastCall.result = "Ok"

C6_Witness ==
    /\ RunJustReturned
    /\ lastCall.result = "Ok"
    /\ trace = <<EvRead(prompt, "Eof", <<>>)>>
    /\ Dispatched = <<>>

----------------------------------------------------------------------------
(* C7: at every point of run() the commands dispatched so far are exactly  *)
(* the stripped non-blank lines read so far, in order, one dispatch per    *)
(* line, and the dispatch the handler answered false to is the last one.   *)
(* Scenario A: reads "  ", "help", Interrupt, "quit" with a handler that   *)
(* stops on "quit" dispatch <<"help", "quit">> and run() returns Ok.       *)
ScenarioAReads ==
    << EvRead(prompt, "Line", <<" ", " ">>),
       EvRead(prompt, "Line", <<"h", "e", "l", "p">>),
       EvRead(prompt, "Interrupted", <<>>),
       EvRead(prompt, "Line", <<"q", "u", "i", "t">>) >>

ScenarioA ==
    /\ SelectSeq(trace, IsRead) = ScenarioAReads
    /\ OutsOf(SelectSeq(trace, IsHandle)) = <<"true", "false">>

C7_DispatchOrderIsReadOrder ==
    InRun =>
        LET handled == SelectSeq(trace, IsHandle)
        IN /\ Len(Dispatched) = Len(CommandLines)
           /\ \A k \in 1..Len(Dispatched) : IsStrippedOf(Dispatched[k], CommandLines[k])
           /\ \A k \in 1..Len(handled) :
                 handled[k].out = "false" =>
                     (k = Len(handled) /\ trace[Len(trace)] = handled[k] /\ RunClosed)
           /\ ScenarioA =>
                 /\ Dispatched = << <<"h", "e", "l", "p">>, <<"q", "u", "i", "t">> >>
                 /\ RunClosed
                 /\ lastCall.op = "run" => lastCall.result = "Ok"

C7_Witness ==
    /\ ScenarioA
    /\ RunJustReturned
    /\ lastCall.result = "Ok"
    /\ Dispatched = << <<"h", "e", "l", "p">>, <<"q", "u", "i", "t">> >>

----------------------------------------------------------------------------
(* C8: run() writes a diagnostic exactly when a read returns an error that *)
(* is neither Interrupt nor EndOfInput: once, right after that read and    *)
(* before returning; nothing is written for an Interrupt, a blank line,    *)
(* an EndOfInput or a handler stop.                                        *)
C8_DiagnosticOnlyOnOtherError ==
    InRun =>
        /\ \A i \in 1..Len(trace) :
              /\ IsErrRead(trace[i]) =>
                    (i + 1 = Len(trace) /\ IsDiag(trace[i + 1]) /\ RunClosed)
              /\ IsDiag(trace[i]) => (i > 1 /\ IsErrRead(trace[i - 1]))
        /\ Len(SelectSeq(trace, IsDiag)) = Len(SelectSeq(trace, IsErrRead))
        /\ Len(SelectSeq(trace, IsDiag)) <= 1

C8_Witness ==
    /\ RunJustReturned
    /\ ReadOutcomes = <<"Interrupted", "Line", "Line", "Err">>
    /\ \E i \in 1..Len(trace) : IsBlankRead(trace[i])
    /\ Len(Dispatched) = 1
    /\ Len(SelectSeq(trace, IsDiag)) = 1
    /\ IsDiag(trace[Len(trace)])

----------------------------------------------------------------------------
(* C9: run() never loads or saves history: while it runs and when it       *)
(* returns the history files are as they were on entry, and the in-memory  *)
(* history has only grown, by entries of dispatched commands, one at most  *)
(* per dispatch; no load_history or save_history call happens inside it.   *)
C9_RunLeavesPersistenceAlone ==
    /\ pc = "running" => lastCall = Call("run", "", "none")
    /\ InRun =>
          /\ fs = entry.fs
          /\ history = entry.history \o AddedEntries
          /\ \A i \in 1..Len(trace) :
                IsAdded(trace[i]) =>
                    (i < Len(trace) /\ IsHandle(trace[i + 1]) /\ trace[i + 1].arg = trace[i].arg)

C9_Witness ==
    /\ RunJustReturned
    /\ entry.history # <<>>
    /\ \E p \in Paths : fs[p].exists /\ DecodeHistory(fs[p].data) = entry.history
    /\ Len(AddedEntries) >= 1
    /\ Len(history) > Len(entry.history)
    /\ fs = entry.fs

----------------------------------------------------------------------------
(* C10: a history saved to a path by one session and loaded from that path *)
(* by a freshly constructed session is the same sequence of commands, in   *)
(* the same order.                                                         *)
C10_SaveLoadRoundTrip ==
    (pc = "ready" /\ lastCall.op = "load_history" /\ lastCall.result = "Ok") =>
        /\ saved[lastCall.path].sess \in 1..(nsess - 1)
        /\ history = saved[lastCall.path].hist

C10_Witness ==
    /\ pc = "ready"
    /\ lastCall.op = "load_history"
    /\ lastCall.result = "Ok"
    /\ saved[lastCall.path].sess = 1
    /\ nsess = 2
    /\ Len(history) = 3
    /\ history[1] # history[2]
    /\ history = saved[lastCall.path].hist

----------------------------------------------------------------------------
(* C11: a failing load_history or save_history hands an error back to the  *)
(* caller and changes nothing else: the Repl is still there with its       *)
(* prompt and history, the files are untouched, and after a failed         *)
(* load_history whose error is discarded run() can be called and reads,    *)
(* records and dispatches lines as usual.                                  *)
IsFailedHistoryCall(c) == c.op \in {"load_history", "save_history"} /\ c.result = "Err"

C11_FailureLeavesReplUsable ==
    /\ IsFailedHistoryCall(lastCall) =>
          /\ prompt \in Prompts
          /\ pc = (IF lastCall.op = "load_history" THEN "ready" ELSE "returned")
          /\ lastCall.op = "load_history" => ENABLED RunEnter
    /\ InRun =>
          /\ Len(Dispatched) = Len(CommandLines)
          /\ AddRequests = Dispatched
          /\ \A k \in 1..Len(Dispatched) : IsStrippedOf(Dispatched[k], CommandLines[k])
          /\ history = entry.history \o AddedEntries

C11_FailureChangesNothing ==
    (IsFailedHistoryCall(lastCall') /\ lastCall'.op # lastCall.op) =>
        /\ pc' = pc
        /\ prompt' = prompt
        /\ history' = history
        /\ fs' = fs

C11_HistoryErrorsNonFatal ==
    /\ []C11_FailureLeavesReplUsable
    /\ [][C11_FailureChangesNothing]_vars

C11_Witness ==
    /\ RunOpen
    /\ \A p \in Paths : ~entry.fs[p].exists
    /\ entry.history = <<>>
    /\ Dispatched = << <<"h", "e", "l", "p">>, <<"a", " ", "b">> >>
    /\ history = Dispatched

----------------------------------------------------------------------------
(* C12: when the editor cannot be created, Repl::new returns Err and there *)
(* is no Repl: no prompt is held, nothing was read, recorded or            *)
(* dispatched, and neither load_history, run, its loop nor save_history can *)
(* be called; when it can, new returns Ok and the Repl holds the prompt it *)
(* was given, with an empty history.                                       *)
IsNew(e) == e.op = "new"

C12_NewFailsWithoutRepl ==
    /\ lastCall.op = "new" =>
          /\ Len(trace) = 1 /\ IsNew(trace[1]) /\ trace[1].out = lastCall.result
          /\ history = <<>>
    /\ lastCall = Call("new", "", "Err") =>
          /\ pc = "start"
          /\ prompt = <<>>
          /\ ~ENABLED LoadHistory
          /\ ~ENABLED RunEnter
          /\ ~ENABLED (OnLine \/ OnInterrupted \/ OnEof \/ OnErr)
          /\ ~ENABLED SaveHistory
    /\ lastCall = Call("new", "", "Ok") =>
          /\ pc = "ready"
          /\ prompt = trace[1].arg
          /\ prompt \in Prompts

C12_Witness ==
    /\ lastCall = Call("new", "", "Err")
    /\ trace = <<EvNew(<<"c", "a", "l", "c", ">", " ">>, FALSE)>>
    /\ nsess = 1

----------------------------------------------------------------------------
(* C13: an add_history_entry call that does not add the command is         *)
(* followed at once by handle with the same command, and what happens next *)
(* depends on the handler's answer alone: after true the loop goes on (the *)
(* run is open or the next call is a readline), after false the run has    *)
(* returned Ok with nothing after the dispatch.                            *)
C13_FailedAddStillDispatches ==
    InRun =>
      \A i \in 1..Len(trace) :
         (IsAdd(trace[i]) /\ ~IsAdded(trace[i])) =>
            /\ i < Len(trace)
            /\ IsHandle(trace[i + 1])
            /\ trace[i + 1].arg = trace[i].arg
            /\ IF trace[i + 1].out = "true"
               THEN IF i + 1 = Len(trace) THEN RunOpen ELSE IsRead(trace[i + 2])
               ELSE /\ i + 1 = Len(trace)
                    /\ RunJustReturned
                    /\ lastCall.result = "Ok"

C13_Witness ==
    /\ RunJustReturned
    /\ Len(trace) = 6
    /\ trace[2] = EvAdd(<<"h", "e", "l", "p">>, FALSE)
    /\ trace[3] = EvHandle(<<"h", "e", "l", "p">>, TRUE)
    /\ trace[5] = EvAdd(<<"q", "u", "i", "t">>, FALSE)
    /\ trace[6] = EvHandle(<<"q", "u", "i", "t">>, FALSE)
    /\ history = <<>>

----------------------------------------------------------------------------
(* C14 as stated: every handle call comes directly after one               *)
(* add_history_entry call with the same string, and when the handler       *)
(* answers false the command is the newest history entry by the time run   *)
(* has returned.                                                           *)
StopCommand == trace[Len(trace)].arg
StoppedByHandler ==
    /\ RunJustReturned
    /\ trace # <<>>
    /\ IsHandle(trace[Len(trace)])
    /\ trace[Len(trace)].out = "false"

AddDirectlyBeforeHandle ==
    \A i \in 1..Len(trace) :
       IsHandle(trace[i]) =>
          /\ i >= 3
          /\ IsAdd(trace[i - 1])
          /\ trace[i - 1].arg = trace[i].arg
          /\ IsCommandRead(trace[i - 2])

----------------------------------------------------------------------------
(* C15: a readline that returned Eof, the diagnostic that follows a        *)
(* readline error, and a handle call answered false are each the last call *)
(* of their run; once run has returned no loop arm can fire although input *)
(* events remain, and no later step adds a call to that run or an entry to *)
(* the history.                                                            *)
IsTerminator(e) == IsEofRead(e) \/ IsDiag(e) \/ (IsHandle(e) /\ e.out = "false")

C15_NothingAfterTerminator ==
    InRun =>
      /\ \A i \in 1..Len(trace) :
            /\ IsTerminator(trace[i]) => (i = Len(trace) /\ RunJustReturned)
            /\ IsErrRead(trace[i]) => (i + 1 = Len(trace) /\ IsDiag(trace[i + 1]))
      /\ RunJustReturned =>
            /\ trace # <<>> /\ IsTerminator(trace[Len(trace)])
            /\ ~ENABLED (OnLine \/ OnInterrupted \/ OnEof \/ OnErr)
            /\ ~ENABLED RunEnter

C15_ReturnedRunIsOver ==
    RunJustReturned =>
        /\ trace' = trace \/ trace' = <<>>
        /\ history' = history \/ history' = <<>>
        /\ nreads' = nreads
        /\ pc' # "running"

C15_TerminatedIsAbsorbing ==
    /\ []C15_NothingAfterTerminator
    /\ [][C15_ReturnedRunIsOver]_vars

C15_Witness ==
    /\ RunJustReturned
    /\ nreads = 2
    /\ nreads < MaxReads
    /\ ReadOutcomes = <<"Line", "Err">>
    /\ Dispatched = << <<"h", "e", "l", "p">> >>
    /\ IsDiag(trace[Len(trace)])

----------------------------------------------------------------------------
(* C16: while a Repl exists its prompt is one fixed string: every readline *)
(* call of run passes exactly the Repl's prompt, and no step between       *)
(* construction and the end of the Repl (load_history, run and its loop    *)
(* arms, dispatches, save_history) changes the prompt.                     *)
C16_ReadsPassThePrompt ==
    /\ pc # "start" => prompt \in Prompts
    /\ InRun => \A i \in 1..Len(trace) : IsRead(trace[i]) => trace[i].arg = prompt

C16_PromptKept ==
    (pc # "start" /\ pc' # "start") => prompt' = prompt

C16_PromptImmutable ==
    /\ []C16_ReadsPassThePrompt
    /\ [][C16_PromptKept]_vars

C16_Witness ==
    /\ RunJustReturned
    /\ prompt = <<"c", "a", "l", "c", ">", " ">>
    /\ ReadOutcomes = <<"Line", "Interrupted", "Line", "Eof">>
    /\ \A i \in 1..Len(trace) : IsRead(trace[i]) => trace[i].arg = <<"c", "a", "l", "c", ">", " ">>
    /\ Len(Dispatched) = 2

----------------------------------------------------------------------------
(* C17: every step of the loop makes exactly one readline call and takes   *)
(* exactly one event from the input, and on an input that ends with Eof or *)
(* a read error a run that has started eventually returns; a run that is   *)
(* still going has seen only lines and interrupts and no false from the    *)
(* handler.                                                                *)
Reads == SelectSeq(trace, IsRead)

C17_OneEventPerIteration ==
    (pc = "running" /\ trace' # trace) =>
        /\ nreads' = nreads + 1
        /\ \E e \in {trace'[k] : k \in (Len(trace) + 1)..Len(trace')} :
               /\ IsRead(e)
               /\ SelectSeq(trace', IsRead) = Append(Reads, e)

C17_StillRunningOnlyOnLinesAndInterrupts ==
    RunOpen =>
        /\ Len(Reads) = nreads
        /\ \A i \in 1..Len(trace) :
              /\ IsRead(trace[i]) => trace[i].out \in {"Line", "Interrupted"}
              /\ IsHandle(trace[i]) => trace[i].out = "true"

C17_RunTerminates ==
    /\ [][C17_OneEventPerIteration]_vars
    /\ []C17_StillRunningOnlyOnLinesAndInterrupts
    /\ (pc = "running") ~> (pc = "returned")

C17_Witness ==
    /\ RunJustReturned
    /\ nreads = MaxReads
    /\ ReadOutcomes[1] = "Line"
    /\ ReadOutcomes[2] = "Interrupted"
    /\ ReadOutcomes[Len(ReadOutcomes)] = "Eof"
    /\ \A i \in 1..Len(trace) : IsHandle(trace[i]) => trace[i].out = "true"

====
